---------------------------- MODULE Spec2Model ----------------------------
(***************************************************************************)
(* A model of hugs/datasets/neuman.py: the capture split, the per-scene    *)
(* lookups, the bounding box of a skeleton, the patch sampler and the      *)
(* dataset session (construction, eager cache, per-index access).          *)
(*                                                                         *)
(* Python values are modelled with Python's indices: an array of length L  *)
(* is a function over 0..L-1; a Python list is a TLA+ sequence whose       *)
(* element k (from 0) is seq[k+1].  A call that raises is a record whose   *)
(* field "raised" names the exception; "None" means it returned.           *)
(***************************************************************************)
EXTENDS Integers, Sequences, FiniteSets, TLC

VARIABLES
    args,            \* the arguments of the function call under study
    ret,             \* what the call returned (NoRet before the call)
    pc,              \* "pure" (a function under study), or the position
                     \* of the dataset object: "new", "ready", "raised"
    disk,            \* what the constructor reads: the scene, masks, mocap
    self,            \* the NeumanDataset object's fields
    cnl_evals        \* how many times the canonical bounding box and the
                     \* motion-weight priors have been computed

vars == <<args, ret, pc, disk, self, cnl_evals>>

NoRet == [raised |-> "NotCalled"]
NoDisk == [scene_length |-> 0]
NoObject == [split |-> "none"]

\* Python's Optional: None, or a value
None == <<>>
Some(x) == <<x>>

----------------------------------------------------------------------------
(* Bounds of the model *)

\* the longest scene (len(scene.captures)) the split and lookups are fed
MaxSceneLen == 100

\* the largest image, in pixels (H * W), the patch sampler is fed
MaxPixels == 6

\* the largest patch_size and N_patch the patch sampler is fed
MaxPatchSize == 3
MaxNPatch == 2

\* the largest silhouette, in pixels, the patch sampler is fed
MaxSubjectPixels == 2

\* the longest skeleton (number of 3-D points) skeleton_to_bbox is fed
MaxJoints == 2

\* the most output frames rendering_caps is asked for
MaxFrames == 3

\* the longest scene a train or val session is built on
MaxCaptures == 10

\* the most get_single_item calls a caller makes on a built dataset
MaxOnDemand == 1

\* patch_size of sample_patch_rays: 160 pixels in the source, scaled to
\* the images of the model
PATCH_SIZE == 2

\* N_patch of sample_patch_rays
N_PATCH == 1

\* bbox_offset's default, 0.3, in tenths
DEFAULT_BBOX_OFFSET == 3

\* Floating point is modelled by a binary format of MantBits significant
\* bits (53 in a numpy double), rounding to nearest, ties to even; a
\* number is an integer count of a fixed unit.
MantBits == 3

----------------------------------------------------------------------------
(* Python helpers *)

Max2(a, b) == IF a >= b THEN a ELSE b
Min2(a, b) == IF a <= b THEN a ELSE b

\* the ascending sequence of the members of a finite set of integers
SortedSeq(S) ==
    [k \in 1..Cardinality(S) |->
        CHOOSE j \in S : Cardinality({m \in S : m < j}) = k - 1]

SeqToSet(s) == {s[k] : k \in 1..Len(s)}

\* s[a:b] of a Python list s, 0 <= a <= b <= len(s)
ListSlice(s, a, b) == [k \in 1..(b - a) |-> s[a + k]]

----------------------------------------------------------------------------
(* get_data_splits *)

\* list(range(scene_length))[offset::length], length >= 1
StridedRange(scene_length, offset, length) ==
    SortedSeq({j \in 0..(scene_length - 1) :
                  j >= offset /\ (j - offset) % length = 0})

\* int(1 / num_val * scene_length): the double product truncated.  For
\* every scene_length below 1245 the double arithmetic gives the exact
\* quotient scene_length / num_val truncated (1245 is the first length
\* where 1/249*1245 rounds below 5), so within MaxSceneLen it is \div.
SplitLength(num_val, scene_length) == scene_length \div num_val

get_data_splits_dropping_test(scene_length) ==
    IF scene_length \div 5 = 0 THEN [raised |-> "ZeroDivisionError"]
    ELSE
    LET num_val    == scene_length \div 5
        length     == SplitLength(num_val, scene_length)
        offset     == length \div 2
        val_list0  == StridedRange(scene_length, offset, length)
        train_list == SortedSeq((0..(scene_length - 1)) \ SeqToSet(val_list0))
        half       == Len(val_list0) \div 2
        test_list  == ListSlice(val_list0, 0, half)
        val_list   == ListSlice(val_list0, half, Len(val_list0))
    IN  IF Len(train_list) = 0 \/ Len(val_list) = 0
        THEN [raised |-> "AssertionError"]
        ELSE [raised |-> "None", train |-> train_list,
              val |-> val_list, test |-> test_list]

get_data_splits(scene_length) ==
    \* num_val = scene_length // 5 ; 1 / (num_val) raises on zero
    IF scene_length \div 5 = 0 THEN [raised |-> "ZeroDivisionError"]
    ELSE
    LET num_val    == scene_length \div 5
        length     == SplitLength(num_val, scene_length)
        offset     == length \div 2
        val_list0  == StridedRange(scene_length, offset, length)
        \* list(set(range(n)) - set(val_list)): a set of small non-negative
        \* ints iterates in ascending order
        train_list == SortedSeq((0..(scene_length - 1)) \ SeqToSet(val_list0))
        half       == Len(val_list0) \div 2
        test_list  == ListSlice(val_list0, 0, half)
        val_list   == ListSlice(val_list0, half, Len(val_list0))
    IN  IF Len(train_list) = 0 \/ Len(test_list) = 0 \/ Len(val_list) = 0
        THEN [raised |-> "AssertionError"]
        ELSE [raised |-> "None", train |-> train_list,
              val |-> val_list, test |-> test_list]

----------------------------------------------------------------------------
(* SpecSplits: get_data_splits applied to a scene of every length *)

InitSplits ==
    /\ args \in [fn : {"get_data_splits"}, scene_length : 0..MaxSceneLen]
    /\ ret = NoRet
    /\ pc = "pure"
    /\ disk = NoDisk
    /\ self = NoObject
    /\ cnl_evals = 0

CallGetDataSplits ==
    /\ args.fn = "get_data_splits"
    /\ ret = NoRet
    /\ ret' = get_data_splits(args.scene_length)
    /\ UNCHANGED <<args, pc, disk, self, cnl_evals>>

NextSplits == CallGetDataSplits

SpecSplits == InitSplits /\ [][NextSplits]_vars

\* C5: get_data_splits either raises, or returns three pairwise disjoint,
\* non-empty lists whose union is 0..n-1 (sizes adding up to n); a scene of
\* 100 captures splits 80/10/10.
C5_SplitsPartitionOrRaise ==
    (args.fn = "get_data_splits" /\ ret # NoRet) =>
        \/ ret.raised # "None"
        \/ LET n  == args.scene_length
               tr == SeqToSet(ret.train)
               va == SeqToSet(ret.val)
               te == SeqToSet(ret.test)
           IN  /\ ret.raised = "None"
               /\ Len(ret.train) > 0 /\ Len(ret.val) > 0 /\ Len(ret.test) > 0
               /\ tr \cap va = {} /\ tr \cap te = {} /\ va \cap te = {}
               /\ tr \cup va \cup te = 0..(n - 1)
               /\ Len(ret.train) + Len(ret.val) + Len(ret.test) = n
               /\ Cardinality(tr) = Len(ret.train)
               /\ Cardinality(va) = Len(ret.val)
               /\ Cardinality(te) = Len(ret.test)
               /\ (n = 100 => /\ Len(ret.train) = 80
                              /\ Len(ret.val) = 10
                              /\ Len(ret.test) = 10)

\* a scene of 100 captures has been split and the call returned
C5_Witness ==
    /\ args.fn = "get_data_splits"
    /\ args.scene_length = 100
    /\ ret # NoRet
    /\ ret.raised = "None"
    /\ Len(ret.train) = 80

----------------------------------------------------------------------------
(* The patch sampler: get_patch_ray_indices and _get_patch_ray_indices *)

\* numpy.clip(a, a_min, a_max) = minimum(a_max, maximum(a, a_min)); with
\* a_min > a_max every value becomes a_max
np_clip(a, a_min, a_max) == Min2(a_max, Max2(a, a_min))

\* the index a bound v of a Python slice stands for, in an axis of length L
PySliceBound(v, L) == IF v < 0 THEN Max2(v + L, 0) ELSE Min2(v, L)

\* the indices lo:hi selects in an axis of length L
PySlice(lo, hi, L) == PySliceBound(lo, L)..(PySliceBound(hi, L) - 1)

\* np.where(candidate_mask) of an H x W array: the <<y, x>> of the true
\* pixels in row-major order (valid_ys, valid_xs zipped)
Where2D(mask, H, W) ==
    LET flat == {y * W + x : <<y, x>> \in {p \in (0..(H-1)) \X (0..(W-1)) : mask[p]}}
        ord  == SortedSeq(flat)
    IN  [k \in 1..Len(ord) |-> <<ord[k] \div W, ord[k] % W>>]

\* np.where(m) of a 1-D array of length L: the true positions, ascending
Where1D(m, L) == SortedSeq({k \in 0..(L - 1) : m[k]})

CountTrue(m, L) == Cardinality({k \in 0..(L - 1) : m[k]})

masked_indices_without_minus_one(ray_mask, k) ==
    Cardinality({j \in 0..k : ray_mask[j]})

\* (np.cumsum(ray_mask) - 1)[k]
masked_indices(ray_mask, k) ==
    Cardinality({j \in 0..k : ray_mask[j]}) - 1

PatchRayIndices_keeping_pixel_positions(ray_mask, select_masked_inds) ==
    select_masked_inds

\* masked_indices[select_masked_inds]
PatchRayIndices(ray_mask, select_masked_inds) ==
    [k \in 1..Len(select_masked_inds) |->
        masked_indices(ray_mask, select_masked_inds[k])]

\* a2[y_min:y_max, x_min:x_max] of an H x W array held as a function of
\* <<y, x>>: the list of its rows
Crop(a2, y_min, y_max, x_min, x_max, H, W) ==
    [r \in 1..Cardinality(PySlice(y_min, y_max, H)) |->
        [c \in 1..Cardinality(PySlice(x_min, x_max, W)) |->
            a2[<<SortedSeq(PySlice(y_min, y_max, H))[r],
                 SortedSeq(PySlice(x_min, x_max, W))[c]>>]]]

PatchLowerBound_clipped_at_zero_only(center, patch_size, limit) ==
    Max2(center - patch_size \div 2, 0)

\* x_min (y_min): np.clip(center - patch_size // 2, 0, limit - patch_size)
PatchLowerBound(center, patch_size, limit) ==
    np_clip(center - patch_size \div 2, 0, limit - patch_size)

PatchOfWindow_returning_window_mask(ray_mask, x_min, x_max, y_min, y_max, H, W) ==
    LET rows == PySlice(y_min, y_max, H)
        cols == PySlice(x_min, x_max, W)
        sel_ray_mask == [k \in 0..(H * W - 1) |->
                         (k \div W) \in rows /\ (k % W) \in cols]
        inter_mask == [k \in 0..(H * W - 1) |-> sel_ray_mask[k] /\ ray_mask[k]]
    IN  [select_inds |-> PatchRayIndices(ray_mask, Where1D(inter_mask, H * W)),
         mask   |-> Crop([q \in (0..(H-1)) \X (0..(W-1)) |-> sel_ray_mask[q[1] * W + q[2]]],
                         y_min, y_max, x_min, x_max, H, W),
         xy_min |-> <<x_min, y_min>>,
         xy_max |-> <<x_max, y_max>>]

\* lines 392-408: the rays of the window [y_min, y_max) x [x_min, x_max)
PatchOfWindow(ray_mask, x_min, x_max, y_min, y_max, H, W) ==
    LET rows == PySlice(y_min, y_max, H)
        cols == PySlice(x_min, x_max, W)
        \* sel_ray_mask[y_min:y_max, x_min:x_max] = True ; reshape(-1) ;
        \* inter_mask = np.bitwise_and(sel_ray_mask, ray_mask)
        inter_mask == [k \in 0..(H * W - 1) |->
                         /\ (k \div W) \in rows /\ (k % W) \in cols
                         /\ ray_mask[k]]
    IN  [select_inds |-> PatchRayIndices(ray_mask, Where1D(inter_mask, H * W)),
         \* inter_mask.reshape(H, W)[y_min:y_max, x_min:x_max]
         mask   |-> Crop([q \in (0..(H-1)) \X (0..(W-1)) |-> inter_mask[q[1] * W + q[2]]],
                         y_min, y_max, x_min, x_max, H, W),
         xy_min |-> <<x_min, y_min>>,
         xy_max |-> <<x_max, y_max>>]

\* lines 381-385: the window around the centre <<center_y, center_x>>
PatchAround(ray_mask, center, patch_size, H, W) ==
    PatchOfWindow(ray_mask,
        PatchLowerBound(center[2], patch_size, W),
        PatchLowerBound(center[2], patch_size, W) + patch_size,
        PatchLowerBound(center[1], patch_size, H),
        PatchLowerBound(center[1], patch_size, H) + patch_size, H, W)

\* One patch.  select_idx is the value np.random.choice(len(valid_ys))
\* returned.
_get_patch_ray_indices(ray_mask, candidate_mask, patch_size, H, W, select_idx) ==
    PatchAround(ray_mask, Where2D(candidate_mask, H, W)[select_idx + 1],
                patch_size, H, W)

AddRays_overwriting(total_rays, ray_indices) == Len(ray_indices)

\* total_rays += len(ray_indices)
AddRays(total_rays, ray_indices) == total_rays + Len(ray_indices)

Concat(seqs) ==
    LET RECURSIVE cat(_)
        cat(k) == IF k = 0 THEN <<>> ELSE cat(k - 1) \o seqs[k]
    IN  cat(Len(seqs))

\* the body of the loop of get_patch_ray_indices: st holds the locals, p
\* is what _get_patch_ray_indices returned
PatchLoopBody(st, p) ==
    [list_ray_indices  |-> Append(st.list_ray_indices, p.select_inds),
     list_mask         |-> Append(st.list_mask, p.mask),
     list_xy_min       |-> Append(st.list_xy_min, p.xy_min),
     list_xy_max       |-> Append(st.list_xy_max, p.xy_max),
     total_rays        |-> AddRays(st.total_rays, p.select_inds),
     patch_div_indices |-> Append(st.patch_div_indices,
                                  AddRays(st.total_rays, p.select_inds))]

\* The loop of get_patch_ray_indices after k iterations; rnd[j] is the
\* value np.random.choice returned in iteration j.
RECURSIVE PatchLoop(_, _, _, _, _, _, _)
PatchLoop(k, ray_mask, subject_mask, patch_size, H, W, rnd) ==
    IF k = 0
    THEN [list_ray_indices |-> <<>>, list_mask |-> <<>>, list_xy_min |-> <<>>,
          list_xy_max |-> <<>>, total_rays |-> 0, patch_div_indices |-> <<0>>]
    ELSE PatchLoopBody(
            PatchLoop(k - 1, ray_mask, subject_mask, patch_size, H, W, rnd),
            _get_patch_ray_indices(ray_mask, subject_mask, patch_size, H, W, rnd[k]))

\* lines 358-366: what get_patch_ray_indices returns from its locals
PatchLoopResult(st) ==
    [raised            |-> "None",
     select_inds       |-> Concat(st.list_ray_indices),
     patch_info        |-> [mask   |-> st.list_mask,
                            xy_min |-> st.list_xy_min,
                            xy_max |-> st.list_xy_max],
     patch_div_indices |-> st.patch_div_indices,
     list_ray_indices  |-> st.list_ray_indices]

\* np.random.choice(0, size=[1], replace=False) raises ValueError; so does
\* np.concatenate of no arrays (N_patch = 0)
get_patch_ray_indices(N_patch, ray_mask, subject_mask, patch_size, H, W, rnd) ==
    IF N_patch = 0 \/ Len(Where2D(subject_mask, H, W)) = 0
    THEN [raised |-> "ValueError"]
    ELSE PatchLoopResult(
            PatchLoop(N_patch, ray_mask, subject_mask, patch_size, H, W, rnd))

\* The draws np.random.choice can return over N_patch iterations
RandomDraws(N_patch, subject_mask, H, W) ==
    LET nvalid == Len(Where2D(subject_mask, H, W))
    IN  IF nvalid = 0 THEN {<<>>} ELSE [1..N_patch -> 0..(nvalid - 1)]

----------------------------------------------------------------------------
(* Inputs: images, masks *)

ImageShapes == {s \in (1..MaxPixels) \X (1..MaxPixels) : s[1] * s[2] <= MaxPixels}

\* every 1-D boolean mask of length L
FlatMasks(L) == [0..(L - 1) -> BOOLEAN]

\* the H x W mask that is true on rows r0..r1, columns c0..c1
RectMask(H, W, r0, r1, c0, c1) ==
    [p \in (0..(H-1)) \X (0..(W-1)) |->
        p[1] >= r0 /\ p[1] <= r1 /\ p[2] >= c0 /\ p[2] <= c1]

\* an H x W mask flattened in row-major order
FlatMask(H, W, m2) == [k \in 0..(H * W - 1) |-> m2[<<k \div W, k % W>>]]

\* silhouettes: the empty mask and every axis-aligned block of at most
\* maxPixels pixels
SilhouetteMasks(H, W, maxPixels) ==
    {RectMask(H, W, 1, 0, 1, 0)} \cup
    {RectMask(H, W, q[1], q[2], q[3], q[4]) :
        q \in {q \in (0..(H-1)) \X (0..(H-1)) \X (0..(W-1)) \X (0..(W-1)) :
                  /\ q[1] <= q[2] /\ q[3] <= q[4]
                  /\ (q[2] - q[1] + 1) * (q[4] - q[3] + 1) <= maxPixels}}

----------------------------------------------------------------------------
(* SpecPatch: get_patch_ray_indices applied to every image and mask *)

PatchArgs ==
    UNION {[fn : {"get_patch_ray_indices"},
            N_patch : 1..MaxNPatch,
            H : {s[1]}, W : {s[2]},
            ray_mask : FlatMasks(s[1] * s[2]),
            subject_mask : SilhouetteMasks(s[1], s[2], MaxSubjectPixels),
            patch_size : 1..MaxPatchSize] : s \in ImageShapes}

InitPatch ==
    /\ args \in PatchArgs
    /\ ret = NoRet
    /\ pc = "pure"
    /\ disk = NoDisk
    /\ self = NoObject
    /\ cnl_evals = 0

CallGetPatchRayIndices ==
    /\ args.fn = "get_patch_ray_indices"
    /\ ret = NoRet
    /\ \E rnd \in RandomDraws(args.N_patch, args.subject_mask, args.H, args.W) :
          ret' = get_patch_ray_indices(args.N_patch, args.ray_mask,
                     args.subject_mask, args.patch_size, args.H, args.W, rnd)
    /\ UNCHANGED <<args, pc, disk, self, cnl_evals>>

NextPatch == CallGetPatchRayIndices

SpecPatch == InitPatch /\ [][NextPatch]_vars

PatchReturned ==
    args.fn = "get_patch_ray_indices" /\ ret # NoRet /\ ret.raised = "None"

\* C1: every compacted ray index returned by the patch sampler lies in
\* [0, count_true(ray_mask)).
C1_RayIndicesInCompactedRange ==
    PatchReturned =>
        /\ \A k \in 1..Len(ret.select_inds) :
              /\ ret.select_inds[k] >= 0
              /\ ret.select_inds[k] < CountTrue(args.ray_mask, args.H * args.W)
        /\ \A p \in 1..Len(ret.list_ray_indices) :
              \A k \in 1..Len(ret.list_ray_indices[p]) :
                 /\ ret.list_ray_indices[p][k] >= 0
                 /\ ret.list_ray_indices[p][k] <
                        CountTrue(args.ray_mask, args.H * args.W)

\* a patch returned the last compacted ray (index count - 1) of a mask with
\* several rays
C1_Witness ==
    /\ PatchReturned
    /\ CountTrue(args.ray_mask, args.H * args.W) >= 2
    /\ \E k \in 1..Len(ret.select_inds) :
          ret.select_inds[k] = CountTrue(args.ray_mask, args.H * args.W) - 1

\* C2: patch_div_indices starts at 0, has N_patch + 1 entries, is
\* non-decreasing, steps by each patch's number of ray indices, and ends at
\* the length of the concatenated select_inds.
C2_PatchDivIndices ==
    PatchReturned =>
        LET d == ret.patch_div_indices
        IN  /\ Len(d) = args.N_patch + 1
            /\ d[1] = 0
            /\ \A k \in 1..args.N_patch :
                  /\ d[k] <= d[k + 1]
                  /\ d[k + 1] - d[k] = Len(ret.list_ray_indices[k])
            /\ d[Len(d)] = Len(ret.select_inds)

\* two patches, each with at least one ray
C2_Witness ==
    /\ PatchReturned
    /\ args.N_patch >= 2
    /\ Len(ret.list_ray_indices[1]) >= 1
    /\ Len(ret.list_ray_indices[2]) >= 1

\* the columns of patch k lie inside the image and number patch_size
ColumnsInsideImage(k) ==
    /\ 0 <= ret.patch_info.xy_min[k][1]
    /\ ret.patch_info.xy_max[k][1] <= args.W
    /\ ret.patch_info.xy_max[k][1] - ret.patch_info.xy_min[k][1] = args.patch_size
    /\ \A r \in 1..Len(ret.patch_info.mask[k]) :
          Len(ret.patch_info.mask[k][r]) = args.patch_size

\* the rows of patch k lie inside the image and number patch_size
RowsInsideImage(k) ==
    /\ 0 <= ret.patch_info.xy_min[k][2]
    /\ ret.patch_info.xy_max[k][2] <= args.H
    /\ ret.patch_info.xy_max[k][2] - ret.patch_info.xy_min[k][2] = args.patch_size
    /\ Len(ret.patch_info.mask[k]) = args.patch_size

WindowInsideImage(k) == ColumnsInsideImage(k) /\ RowsInsideImage(k)

\* C3 as stated: for every patch_size the window lies inside the image and
\* is patch_size x patch_size.
C3_WindowInsideForEveryPatchSize ==
    PatchReturned => \A k \in 1..args.N_patch : WindowInsideImage(k)

\* C3, amended: along each axis that the patch fits (patch_size <= W for
\* the columns, patch_size <= H for the rows) the window lies inside the
\* image and spans patch_size pixels, shifted rather than shrunk; when the
\* patch fits both, the window is a patch_size x patch_size square inside
\* the image.
C3_WindowInsideWhenPatchFits ==
    PatchReturned =>
        \A k \in 1..args.N_patch :
           /\ args.patch_size <= args.W => ColumnsInsideImage(k)
           /\ args.patch_size <= args.H => RowsInsideImage(k)

\* a window that had to be shifted: the centre is in the last column, and
\* the window centred there would pass the right edge of an image the
\* patch fits
C3_Witness ==
    /\ PatchReturned
    /\ args.patch_size <= args.W
    /\ (args.W - 1) - (args.patch_size \div 2) > args.W - args.patch_size
    /\ \A p \in DOMAIN args.subject_mask :
          args.subject_mask[p] => p[2] = args.W - 1
    /\ ret.patch_info.xy_max[1][1] = args.W
    /\ ret.patch_info.xy_min[1][1] = args.W - args.patch_size


\* the pixels (flattened positions) that ray_mask marks inside the window
\* [y_min, y_max) x [x_min, x_max) of patch k
WindowRayPixels(k) ==
    {px \in 0..(args.H * args.W - 1) :
        /\ args.ray_mask[px]
        /\ ret.patch_info.xy_min[k][1] <= px % args.W
        /\ px % args.W < ret.patch_info.xy_max[k][1]
        /\ ret.patch_info.xy_min[k][2] <= px \div args.W
        /\ px \div args.W < ret.patch_info.xy_max[k][2]}

\* the number of true entries of ray_mask at positions strictly before px
RankInRayMask(px) == Cardinality({j \in 0..(px - 1) : args.ray_mask[j]})

\* the number of true entries of a mask held as a list of rows
TrueCount2D(m) ==
    Cardinality({q \in UNION {{<<r, c>> : c \in 1..Len(m[r])} : r \in 1..Len(m)} :
                    m[q[1]][q[2]]})

\* the intra-patch mask of patch k is ray_mask read over the window
MaskIsRayMaskOverWindow(k) ==
    /\ \A y \in ret.patch_info.xy_min[k][2]..(ret.patch_info.xy_max[k][2] - 1),
          x \in ret.patch_info.xy_min[k][1]..(ret.patch_info.xy_max[k][1] - 1) :
          (y \in 0..(args.H - 1) /\ x \in 0..(args.W - 1)) =>
             LET r == y - ret.patch_info.xy_min[k][2] + 1
                 c == x - ret.patch_info.xy_min[k][1] + 1
             IN  /\ r \in 1..Len(ret.patch_info.mask[k])
                 /\ c \in 1..Len(ret.patch_info.mask[k][r])
                 /\ ret.patch_info.mask[k][r][c] = args.ray_mask[y * args.W + x]
    /\ TrueCount2D(ret.patch_info.mask[k]) = Cardinality(WindowRayPixels(k))

\* the intra-patch mask of patch k has one true entry per pixel that
\* ray_mask marks inside the window
MaskCountsWindowRayPixels(k) ==
    TrueCount2D(ret.patch_info.mask[k]) = Cardinality(WindowRayPixels(k))

\* the ray indices of patch k are the ranks, in row-major order, of the
\* pixels ray_mask marks inside the window
IndicesAreRanksOverWindow(k) ==
    ret.list_ray_indices[k] =
        [j \in 1..Cardinality(WindowRayPixels(k)) |->
            RankInRayMask(SortedSeq(WindowRayPixels(k))[j])]

\* as many ray indices as true entries of the intra-patch mask, strictly
\* increasing, each the rank of a pixel ray_mask marks
IndicesMatchPatchMask(k) ==
    /\ Len(ret.list_ray_indices[k]) = TrueCount2D(ret.patch_info.mask[k])
    /\ \A j \in 1..(Len(ret.list_ray_indices[k]) - 1) :
          ret.list_ray_indices[k][j] < ret.list_ray_indices[k][j + 1]
    /\ \A j \in 1..Len(ret.list_ray_indices[k]) :
          \E px \in 0..(args.H * args.W - 1) :
             args.ray_mask[px] /\ ret.list_ray_indices[k][j] = RankInRayMask(px)

\* C11 as stated: for each patch, of any size, the intra-patch mask is true
\* exactly at the pixels inside the window and true in ray_mask, the ray
\* indices are the ranks of those pixels in row-major order, their number
\* is the true-count of the mask and they are strictly increasing.
C11_PatchMaskAndRanksForEveryPatchSize ==
    PatchReturned =>
        \A k \in 1..args.N_patch :
           /\ MaskCountsWindowRayPixels(k)
           /\ IndicesAreRanksOverWindow(k)
           /\ IndicesMatchPatchMask(k)

\* C11, amended: for each patch the number of ray indices is the true-count
\* of the intra-patch mask, the indices are strictly increasing and each is
\* the rank of a pixel ray_mask marks; and when the patch fits the image
\* (patch_size <= H and patch_size <= W) the mask is true exactly at the
\* pixels inside the window and true in ray_mask, and the indices are the
\* ranks of exactly those pixels in row-major order.
C11_PatchMaskAndRanksWhenPatchFits ==
    PatchReturned =>
        \A k \in 1..args.N_patch :
           /\ IndicesMatchPatchMask(k)
           /\ (args.patch_size <= args.H /\ args.patch_size <= args.W) =>
                 /\ MaskIsRayMaskOverWindow(k)
                 /\ IndicesAreRanksOverWindow(k)

\* a patch that fits, whose mask has true and false entries, with two or
\* more rays, one of them a ray whose rank differs from its pixel position
C11_Witness ==
    /\ PatchReturned
    /\ args.patch_size >= 2
    /\ args.patch_size <= args.H /\ args.patch_size <= args.W
    /\ Len(ret.list_ray_indices[1]) >= 2
    /\ TrueCount2D(ret.patch_info.mask[1]) < args.patch_size * args.patch_size
    /\ \E j \in 1..Len(ret.list_ray_indices[1]) :
          ret.list_ray_indices[1][j] # SortedSeq(WindowRayPixels(1))[j]
    /\ CountTrue(args.ray_mask, args.H * args.W) > Len(ret.list_ray_indices[1])


----------------------------------------------------------------------------
(* Floating-point arithmetic: every numpy operation rounds its exact result *)

Abs(x) == IF x < 0 THEN -x ELSE x

RECURSIVE Pow2(_)
Pow2(e) == IF e = 0 THEN 1 ELSE 2 * Pow2(e - 1)

\* the number of bits of m >= 0
RECURSIVE BitLen(_)
BitLen(m) == IF m = 0 THEN 0 ELSE 1 + BitLen(m \div 2)

\* the spacing of the floats around x (the unit in the last place of x)
Ulp(x) == Pow2(Max2(0, BitLen(Abs(x)) - MantBits))

\* x rounded to the nearest float, ties to the even significand
FlRound(x) ==
    LET q     == Ulp(x)
        m     == Abs(x)
        lower == (m \div q) * q
        rem   == m - lower
        up    == \/ 2 * rem > q
                 \/ (2 * rem = q /\ (m \div q) % 2 = 1)
        r     == IF up THEN lower + q ELSE lower
    IN  IF x < 0 THEN -r ELSE r

IsFloat(x) == FlRound(x) = x

fl_sub(a, b) == FlRound(a - b)
fl_add(a, b) == FlRound(a + b)

----------------------------------------------------------------------------
(* skeleton_to_bbox *)

Axes == 1..3

\* np.min(skeleton, axis=0)[a], np.max(skeleton, axis=0)[a]
np_min(skeleton, a) ==
    CHOOSE v \in {skeleton[k][a] : k \in 1..Len(skeleton)} :
        \A k \in 1..Len(skeleton) : v <= skeleton[k][a]
np_max(skeleton, a) ==
    CHOOSE v \in {skeleton[k][a] : k \in 1..Len(skeleton)} :
        \A k \in 1..Len(skeleton) : v >= skeleton[k][a]

skeleton_to_bbox_shrinking_max(skeleton, bbox_offset) ==
    IF Len(skeleton) = 0 THEN [raised |-> "ValueError"]
    ELSE [raised  |-> "None",
          min_xyz |-> [a \in Axes |-> fl_sub(np_min(skeleton, a), bbox_offset)],
          max_xyz |-> [a \in Axes |-> fl_sub(np_max(skeleton, a), bbox_offset)]]

\* np.min / np.max of an empty array raise ValueError
skeleton_to_bbox(skeleton, bbox_offset) ==
    IF Len(skeleton) = 0 THEN [raised |-> "ValueError"]
    ELSE [raised  |-> "None",
          min_xyz |-> [a \in Axes |-> fl_sub(np_min(skeleton, a), bbox_offset)],
          max_xyz |-> [a \in Axes |-> fl_add(np_max(skeleton, a), bbox_offset)]]

----------------------------------------------------------------------------
(* SpecBBox: skeleton_to_bbox applied to skeletons and padding offsets *)

\* coordinates and offsets, all of them floats of the format
Coordinates == {c \in {-5, 1, 6} : IsFloat(c)}
Offsets == {o \in {0, 3, 10} : IsFloat(o)}

Points == [Axes -> Coordinates]

Skeletons == UNION {[1..n -> Points] : n \in 0..MaxJoints}

InitBBox ==
    /\ args \in [fn : {"skeleton_to_bbox"}, skeleton : Skeletons,
                 bbox_offset : Offsets]
    /\ ret = NoRet
    /\ pc = "pure"
    /\ disk = NoDisk
    /\ self = NoObject
    /\ cnl_evals = 0

CallSkeletonToBBox ==
    /\ args.fn = "skeleton_to_bbox"
    /\ ret = NoRet
    /\ ret' = skeleton_to_bbox(args.skeleton, args.bbox_offset)
    /\ UNCHANGED <<args, pc, disk, self, cnl_evals>>

NextBBox == CallSkeletonToBBox

SpecBBox == InitBBox /\ [][NextBBox]_vars

BBoxReturned ==
    args.fn = "skeleton_to_bbox" /\ ret # NoRet /\ ret.raised = "None"

\* C9 as stated: min_xyz <= max_xyz, every input point p has
\* min_xyz + offset <= p <= max_xyz - offset on every axis, and on every
\* axis some point attains each of the two bounds.
C9_PointsInsideBoxShrunkByOffset ==
    BBoxReturned =>
        \A a \in Axes :
            LET lo == ret.min_xyz[a] + args.bbox_offset
                hi == ret.max_xyz[a] - args.bbox_offset
                S  == {args.skeleton[k][a] : k \in 1..Len(args.skeleton)}
            IN  /\ ret.min_xyz[a] <= ret.max_xyz[a]
                /\ \A v \in S : lo <= v /\ v <= hi
                /\ lo \in S /\ hi \in S

\* C9, amended: min_xyz <= max_xyz, every input point p has
\* min_xyz <= p <= max_xyz on every axis, and min_xyz (max_xyz) is the
\* componentwise minimum minus offset (maximum plus offset) rounded to the
\* nearest float: it is within half a unit in the last place of the exact
\* value, so the bounds shrunk by offset hold up to that rounding error and
\* exactly whenever the subtraction and the addition are exact.
C9_BoxContainsPointsUpToRounding ==
    BBoxReturned =>
        \A a \in Axes :
            LET S    == {args.skeleton[k][a] : k \in 1..Len(args.skeleton)}
                tmin == CHOOSE v \in S : \A w \in S : v <= w
                tmax == CHOOSE v \in S : \A w \in S : v >= w
                elo  == tmin - args.bbox_offset
                ehi  == tmax + args.bbox_offset
            IN  /\ ret.min_xyz[a] <= ret.max_xyz[a]
                /\ \A v \in S : ret.min_xyz[a] <= v /\ v <= ret.max_xyz[a]
                /\ 2 * Abs(ret.min_xyz[a] - elo) <= Ulp(elo)
                /\ 2 * Abs(ret.max_xyz[a] - ehi) <= Ulp(ehi)
                /\ IsFloat(ret.min_xyz[a]) /\ IsFloat(ret.max_xyz[a])

\* a box of two distinct points whose padded maximum had to be rounded
C9_Witness ==
    /\ BBoxReturned
    /\ Len(args.skeleton) = 2
    /\ args.skeleton[1] # args.skeleton[2]
    /\ args.bbox_offset > 0
    /\ ret.max_xyz[1] # np_max(args.skeleton, 1) + args.bbox_offset


----------------------------------------------------------------------------
(* The per-scene lookups: mocap_path, alignment, rendering_caps *)

\* A scene name is a path, held as the sequence of its components between
\* the separators; "seattle/" is <<"seattle", "">>.
\* os.path.basename: what follows the last separator
basename(scene_name) == scene_name[Len(scene_name)]

ConfiguredScenes == {"seattle", "citron", "parkinglot", "bike", "jogging", "lab"}

\* the mocap file and its trim window [start_idx, end_idx) and frame skip
mocap_path(scene_name) ==
    CASE basename(scene_name) = "seattle" ->
            [raised |-> "None", path |-> "./data/SFU/0005/0005_SideSkip001_poses.npz",
             start_idx |-> 0, end_idx |-> 800, skip |-> 4]
      [] basename(scene_name) = "citron" ->
            [raised |-> "None", path |-> "./data/MPI_mosh/00093/irish_dance_poses.npz",
             start_idx |-> 0, end_idx |-> 1000, skip |-> 4]
      [] basename(scene_name) = "parkinglot" ->
            [raised |-> "None", path |-> "./data/SFU/0005/0005_2FeetJump001_poses.npz",
             start_idx |-> 0, end_idx |-> 1200, skip |-> 4]
      [] basename(scene_name) = "bike" ->
            [raised |-> "None", path |-> "./data/MPI_mosh/50002/misc_poses.npz",
             start_idx |-> 0, end_idx |-> 250, skip |-> 1]
      [] basename(scene_name) = "jogging" ->
            [raised |-> "None", path |-> "./data/SFU/0007/0007_Cartwheel001_poses.npz",
             start_idx |-> 200, end_idx |-> 1000, skip |-> 8]
      [] basename(scene_name) = "lab" ->
            [raised |-> "None", path |-> "./data/SFU/0008/0008_ChaCha001_poses.npz",
             start_idx |-> 0, end_idx |-> 1000, skip |-> 4]
      [] OTHER -> [raised |-> "ValueError"]

\* manual_trans and manual_scale in hundredths, manual_rot in tenths of a
\* degree (the code scales it by pi / 180)
alignment(scene_name) ==
    CASE basename(scene_name) = "seattle" ->
            [raised |-> "None", manual_trans |-> <<-225, 108, 818>>,
             manual_rot |-> <<904, -42, -10>>, manual_scale |-> 180]
      [] basename(scene_name) = "citron" ->
            [raised |-> "None", manual_trans |-> <<633, 170, 1070>>,
             manual_rot |-> <<724, 1682, -44>>, manual_scale |-> 250]
      [] basename(scene_name) = "parkinglot" ->
            [raised |-> "None", manual_trans |-> <<-80, 235, 1267>>,
             manual_rot |-> <<940, -850, -3630>>, manual_scale |-> 300]
      [] basename(scene_name) = "bike" ->
            [raised |-> "None", manual_trans |-> <<0, 88, 389>>,
             manual_rot |-> <<888, 1800, 18>>, manual_scale |-> 100]
      [] basename(scene_name) = "jogging" ->
            [raised |-> "None", manual_trans |-> <<0, 24, 33>>,
             manual_rot |-> <<958, -12, -22>>, manual_scale |-> 25]
      [] basename(scene_name) = "lab" ->
            [raised |-> "None", manual_trans |-> <<576, 303, 1169>>,
             manual_rot |-> <<904, -42, -18>>, manual_scale |-> 300]
      [] OTHER ->
            [raised |-> "None", manual_trans |-> <<0, 0, 0>>,
             manual_rot |-> <<0, 0, 0>>, manual_scale |-> 100]

\* A capture: the index it had in the scene as read, and where its camera
\* centre is: as captured (path "none"), or moved along the named scene's
\* camera path to the place of frame i of n.
Capture(k) == [id |-> k, camera_center |-> [path |-> "none", i |-> 0, n |-> 0]]

\* scene.captures of a scene read from disk with scene_length captures
SceneCaptures(scene_length) == [k \in 1..scene_length |-> Capture(k - 1)]

\* the index of the reference capture of each configured scene
ReferenceCapture(name) ==
    CASE name = "seattle" -> 20
      [] name = "citron" -> 33
      [] name = "parkinglot" -> 23
      [] name = "bike" -> 25
      [] name = "jogging" -> 67
      [] name = "lab" -> 39

\* temp = copy.deepcopy(scene.captures[ref]) with its camera centre
\* displaced by the scene's elliptical or linear offset of frame i
DummyCapture(captures, name, i, nframes) ==
    LET temp == captures[ReferenceCapture(name) + 1]
    IN  [temp EXCEPT !.camera_center = [path |-> name, i |-> i, n |-> nframes]]

rendering_caps_without_deepcopy(scene_name, nframes, captures) ==
    IF basename(scene_name) \notin ConfiguredScenes
    THEN [raised |-> "UnboundLocalError", captures |-> captures]
    ELSE IF nframes > 0 /\ ReferenceCapture(basename(scene_name)) >= Len(captures)
    THEN [raised |-> "IndexError", captures |-> captures]
    ELSE [raised     |-> "None",
          dummy_caps |-> [k \in 1..nframes |->
                            DummyCapture(captures, basename(scene_name),
                                         nframes - 1, nframes)],
          captures   |-> IF nframes = 0 THEN captures
                         ELSE [captures EXCEPT
                                 ![ReferenceCapture(basename(scene_name)) + 1] =
                                    DummyCapture(captures, basename(scene_name),
                                                 nframes - 1, nframes)]]

\* dummy_caps is bound only in the six branches; scene.captures[ref] raises
\* IndexError in the first iteration when the scene is too short.  The
\* field captures is scene.captures after the call.
rendering_caps(scene_name, nframes, captures) ==
    IF basename(scene_name) \notin ConfiguredScenes
    THEN [raised |-> "UnboundLocalError", captures |-> captures]
    ELSE IF nframes > 0 /\ ReferenceCapture(basename(scene_name)) >= Len(captures)
    THEN [raised |-> "IndexError", captures |-> captures]
    ELSE [raised     |-> "None",
          dummy_caps |-> [k \in 1..nframes |->
                            DummyCapture(captures, basename(scene_name), k - 1, nframes)],
          captures   |-> captures]

----------------------------------------------------------------------------
(* SpecLookup: the three lookups applied to scene names *)

SceneBasenames == ConfiguredScenes \cup {"zju_mocap", "Seattle", ""}

SceneNames ==
    {<<b>> : b \in SceneBasenames} \cup
    {<<"neuman", b>> : b \in SceneBasenames} \cup
    {<<b, "">> : b \in ConfiguredScenes}

InitLookup ==
    /\ args \in [fn : {"mocap_path", "alignment"}, scene_name : SceneNames,
                 nframes : {0}, scene_length : {0}]
           \cup [fn : {"rendering_caps"}, scene_name : SceneNames,
                 nframes : 0..MaxFrames, scene_length : 0..MaxSceneLen]
    /\ ret = NoRet
    /\ pc = "pure"
    /\ disk = NoDisk
    /\ self = NoObject
    /\ cnl_evals = 0

CallMocapPath ==
    /\ args.fn = "mocap_path"
    /\ ret = NoRet
    /\ ret' = mocap_path(args.scene_name)
    /\ UNCHANGED <<args, pc, disk, self, cnl_evals>>

CallAlignment ==
    /\ args.fn = "alignment"
    /\ ret = NoRet
    /\ ret' = alignment(args.scene_name)
    /\ UNCHANGED <<args, pc, disk, self, cnl_evals>>

CallRenderingCaps ==
    /\ args.fn = "rendering_caps"
    /\ ret = NoRet
    /\ ret' = rendering_caps(args.scene_name, args.nframes,
                             SceneCaptures(args.scene_length))
    /\ UNCHANGED <<args, pc, disk, self, cnl_evals>>

NextLookup == CallMocapPath \/ CallAlignment \/ CallRenderingCaps

SpecLookup == InitLookup /\ [][NextLookup]_vars

\* C8: for a scene name whose basename is not a configured scene, each of
\* mocap_path, alignment and rendering_caps ends in an error and returns no
\* value.
C8_UnknownSceneIsFatal ==
    (/\ args.fn \in {"mocap_path", "alignment", "rendering_caps"}
     /\ ret # NoRet
     /\ basename(args.scene_name) \notin ConfiguredScenes)
        => ret.raised # "None"

\* rendering_caps was called with the name of a configured scene
RenderingCapsCalled ==
    /\ args.fn = "rendering_caps"
    /\ ret # NoRet
    /\ basename(args.scene_name) \in ConfiguredScenes

\* rendering_caps returned nframes captures, capture k a copy of the
\* scene's reference capture with the camera centre of frame k, and
\* scene.captures, the reference capture included, is as it was
ReturnsOneCopyPerFrame ==
    /\ ret.raised = "None"
    /\ Len(ret.dummy_caps) = args.nframes
    /\ \A k \in 1..args.nframes :
          /\ ret.dummy_caps[k].id = ReferenceCapture(basename(args.scene_name))
          /\ ret.dummy_caps[k].camera_center =
                [path |-> basename(args.scene_name), i |-> k - 1, n |-> args.nframes]
    /\ ret.captures = SceneCaptures(args.scene_length)

\* C12 as stated: for every configured scene name and every nframes >= 0
\* rendering_caps returns exactly nframes captures, each a displaced copy
\* of the scene's reference capture, and leaves scene.captures unchanged.
C12_OneCopyPerFrameForEveryScene ==
    RenderingCapsCalled => ReturnsOneCopyPerFrame

\* C12, amended: that holds when nframes = 0 or the scene holds the
\* reference capture (more captures than the reference index); for
\* nframes > 0 on a shorter scene rendering_caps raises IndexError and
\* returns nothing, scene.captures unchanged.
C12_OneCopyPerFrameWhenReferenceExists ==
    RenderingCapsCalled =>
        IF args.nframes = 0
           \/ args.scene_length > ReferenceCapture(basename(args.scene_name))
        THEN ReturnsOneCopyPerFrame
        ELSE /\ ret.raised = "IndexError"
             /\ ret.captures = SceneCaptures(args.scene_length)

\* two or more frames rendered from the reference capture of a scene
C12_Witness ==
    /\ RenderingCapsCalled
    /\ args.nframes >= 2
    /\ args.scene_length > ReferenceCapture(basename(args.scene_name))
    /\ ret.raised = "None"
    /\ ret.dummy_caps[1] # ret.dummy_caps[2]


----------------------------------------------------------------------------
(* NeumanDataset: sample assembly *)

\* arr[mask] of a 1-D array (a list) by a boolean mask of the same length
BoolIndex(arr, mask) ==
    LET pos == Where1D(mask, Len(arr))
    IN  [k \in 1..Len(pos) |-> arr[pos[k] + 1]]

\* arr[inds] of a 1-D array by a list of indices
IntIndex(arr, inds) == [k \in 1..Len(inds) |-> arr[inds[k] + 1]]

select_rays_keeping_far(select_inds, rays_o, rays_d, ray_img, nerf_near, nerf_far) ==
    [rays_o    |-> IntIndex(rays_o, select_inds),
     rays_d    |-> IntIndex(rays_d, select_inds),
     ray_img   |-> IntIndex(ray_img, select_inds),
     nerf_near |-> IntIndex(nerf_near, select_inds),
     nerf_far  |-> nerf_far]

select_rays(select_inds, rays_o, rays_d, ray_img, nerf_near, nerf_far) ==
    [rays_o    |-> IntIndex(rays_o, select_inds),
     rays_d    |-> IntIndex(rays_d, select_inds),
     ray_img   |-> IntIndex(ray_img, select_inds),
     nerf_near |-> IntIndex(nerf_near, select_inds),
     nerf_far  |-> IntIndex(nerf_far, select_inds)]

\* img[y_min:y_max, x_min:x_max] for the window of patch k (lines 425-433)
PatchWindow(a2, patch_info, k, H, W) ==
    Crop(a2, patch_info.xy_min[k][2], patch_info.xy_max[k][2],
             patch_info.xy_min[k][1], patch_info.xy_max[k][1], H, W)

\* lines 418-436 of sample_patch_rays: g is what get_patch_ray_indices
\* returned, sel what select_rays returned
PatchSample(g, sel, img, mask, H, W) ==
    [raised    |-> "None",
     rays_o    |-> sel.rays_o,
     rays_d    |-> sel.rays_d,
     ray_img   |-> sel.ray_img,
     nerf_near |-> sel.nerf_near,
     nerf_far  |-> sel.nerf_far,
     target_patches     |-> [k \in 1..N_PATCH |-> PatchWindow(img, g.patch_info, k, H, W)],
     target_patch_masks |-> [k \in 1..N_PATCH |-> PatchWindow(mask, g.patch_info, k, H, W)],
     patch_masks        |-> g.patch_info.mask,
     patch_div_indices  |-> g.patch_div_indices,
     xy_min |-> g.patch_info.xy_min,
     xy_max |-> g.patch_info.xy_max]

\* the rest of sample_patch_rays once get_patch_ray_indices returned g
SelectPatchRays(g, img, mask, H, W, rays_o, rays_d, ray_img, nerf_near, nerf_far) ==
    IF g.raised # "None" THEN [raised |-> g.raised]
    ELSE PatchSample(g, select_rays(g.select_inds, rays_o, rays_d, ray_img,
                                    nerf_near, nerf_far),
                     img, mask, H, W)

\* rnd is the draw of the one patch
sample_patch_rays(img, mask, H, W, subject_mask, ray_mask, rays_o, rays_d, ray_img, nerf_near, nerf_far, rnd) ==
    SelectPatchRays(get_patch_ray_indices(N_PATCH, ray_mask, subject_mask,
                                          PATCH_SIZE, H, W, rnd),
                    img, mask, H, W, rays_o, rays_d, ray_img, nerf_near, nerf_far)

\* An array with one entry per ray is held as the list of its rays, each
\* ray named by the flattened position of its pixel: what get_rays_from_KRT
\* returns, reshaped to H * W rows.
AllRays(H, W) == [k \in 1..(H * W) |-> k - 1]

\* rays_intersect_3d_bbox: near and far of the rays that hit the box, in
\* pixel order, and the mask, one entry per pixel, of the rays that hit.
\* hits is the outcome of the geometry for the frame.
rays_intersect_3d_bbox(hits, rays_o) ==
    [near |-> BoolIndex(rays_o, hits), far |-> BoolIndex(rays_o, hits),
     ray_mask |-> hits]

\* the bbox of lines 460-464: "rows" is np.any(msk, axis=0), one entry per
\* column; "cols" is np.any(msk, axis=1), one entry per row
mask_bbox(msk, H, W) ==
    LET rows == {x \in 0..(W - 1) : \E y \in 0..(H - 1) : msk[<<y, x>>]}
        cols == {y \in 0..(H - 1) : \E x \in 0..(W - 1) : msk[<<y, x>>]}
    IN  IF rows = {} THEN [raised |-> "IndexError"]
        ELSE
        LET ymin == SortedSeq(rows)[1]
            ymax == SortedSeq(rows)[Cardinality(rows)]
            xmin == SortedSeq(cols)[1]
            xmax == SortedSeq(cols)[Cardinality(cols)]
        IN  [raised |-> "None", bbox |-> <<xmin, ymin, xmax, ymax>>]

\* the joints of the body model in the canonical pose, and in a frame's pose
CanonicalJoints == <<[a \in Axes |-> 1], [a \in Axes |-> IF a = 1 THEN 6 ELSE -5]>>

\* len(self): None for a split that is none of the three
__len__(obj) ==
    CASE obj.split = "train" -> Some(Len(obj.train_split))
      [] obj.split = "val"   -> Some(Len(obj.val_split))
      [] obj.split = "anim"  -> Some(obj.num_frames)
      [] OTHER -> None

\* The fields get_single_item assigns on every train or val call
CanonicalFields(obj) ==
    LET canonical_bbox == skeleton_to_bbox(CanonicalJoints, DEFAULT_BBOX_OFFSET)
    IN  [obj EXCEPT !.canonical_joints = Some(CanonicalJoints),
                    !.canonical_bbox = Some(canonical_bbox),
                    !.motion_weights_priors =
                        Some([joints |-> CanonicalJoints,
                              min_xyz |-> canonical_bbox.min_xyz,
                              max_xyz |-> canonical_bbox.max_xyz])]

\* img_cv2[msk == 0] = bgcolor (line 458): a pixel of the subject keeps its
\* colour, named by its flattened position; the background is -1
MaskedImage(msk, H, W) ==
    [q \in (0..(H-1)) \X (0..(W-1)) |-> IF msk[q] THEN q[1] * W + q[2] ELSE -1]

\* lines 466-476: what every datum carries
CommonFields(obj, idx, H, W) ==
    [capture      |-> obj.captures[idx + 1],
     pose_index   |-> idx,
     image_height |-> H,
     image_width  |-> W,
     device       |-> "cpu"]

\* lines 580-639: the datum of a train or val frame; obj2 is the object
\* after lines 511-524, s what sample_patch_rays returned
FrameDatum(obj2, common, idx, msk, bbox, ray_mask, s) ==
    IF s.raised # "None"
    THEN [raised |-> s.raised, self |-> obj2, evals |-> 1]
    ELSE
    [raised |-> "None", self |-> obj2, evals |-> 1,
     datum |->
       [common    |-> common,
        mask_file |-> idx,
        mask      |-> msk,
        bbox      |-> bbox,
        ray_mask  |-> ray_mask,
        rays      |-> <<s.rays_o, s.rays_d>>,
        nerf_near |-> s.nerf_near,
        nerf_far  |-> s.nerf_far,
        patch_div_indices  |-> s.patch_div_indices,
        patch_masks        |-> s.patch_masks,
        target_patches     |-> s.target_patches,
        target_patch_masks |-> s.target_patch_masks,
        target_rgbs        |-> s.ray_img,
        xy_min |-> s.xy_min,
        xy_max |-> s.xy_max,
        motion_weights_priors |-> obj2.motion_weights_priors[1],
        cnl_bbox_min_xyz |-> obj2.canonical_bbox[1].min_xyz,
        cnl_bbox_max_xyz |-> obj2.canonical_bbox[1].max_xyz]]

\* lines 557-576: hit is what rays_intersect_3d_bbox returned; the rays
\* that hit are kept, then the patch is sampled
SampleFrame(hit, msk, H, W, rnd) ==
    sample_patch_rays(MaskedImage(msk, H, W), msk, H, W, msk, hit.ray_mask,
                      BoolIndex(AllRays(H, W), hit.ray_mask),
                      BoolIndex(AllRays(H, W), hit.ray_mask),
                      BoolIndex(AllRays(H, W), hit.ray_mask),
                      hit.near, hit.far, <<rnd>>)

\* lines 452-639 for a train or val frame; bb is the bbox of the mask
TrainValItem(obj, files, idx, bb, rnd) ==
    IF bb.raised # "None"
    THEN [raised |-> bb.raised, self |-> obj, evals |-> 0]
    ELSE FrameDatum(CanonicalFields(obj),
                    CommonFields(obj, idx, files.H, files.W),
                    idx, files.msk, bb.bbox, files.ray_mask,
                    SampleFrame(rays_intersect_3d_bbox(files.ray_mask,
                                                       AllRays(files.H, files.W)),
                                files.msk, files.H, files.W, rnd))

\* get_single_item once idx is read from the split
ItemOfCapture(obj, files, idx, rnd) ==
    IF idx >= Len(obj.captures) \/ idx >= files.n_poses
    THEN [raised |-> "IndexError", self |-> obj, evals |-> 0]
    ELSE IF obj.split = "anim"
    THEN [raised |-> "None", self |-> obj, evals |-> 0,
          datum |-> [common |-> CommonFields(obj, idx, files.H, files.W),
                     manual |-> obj.manual]]
    ELSE TrainValItem(obj, files, idx, mask_bbox(files.msk, files.H, files.W), rnd)

\* lines 439-447: the list the split indexes
SplitList(obj, i) ==
    IF obj.split = "train" THEN obj.train_split
    ELSE IF obj.split = "val" THEN obj.val_split
    ELSE [k \in 1..(i + 1) |-> k - 1]

\* get_single_item(i) on the object obj; rnd is the draw of the patch
\* centre.  Returns the datum and the object as the call leaves it; evals
\* counts the computations of the canonical bounding box and priors.
get_single_item(obj, files, i, rnd) ==
    IF obj.split \notin {"train", "val", "anim"}
    THEN [raised |-> "UnboundLocalError", self |-> obj, evals |-> 0]
    ELSE IF i < 0 \/ i >= Len(SplitList(obj, i))
    THEN [raised |-> "IndexError", self |-> obj, evals |-> 0]
    ELSE ItemOfCapture(obj, files, SplitList(obj, i)[i + 1], rnd)

CacheDatum_keeping_last_only(st, g) ==
    IF g.raised # "None"
    THEN [raised |-> g.raised, self |-> g.self, evals |-> st.evals + g.evals]
    ELSE [raised |-> "None",
          self   |-> [g.self EXCEPT !.cached_data =
                        Some(<<[g.datum EXCEPT !.common.device = "cuda"]>>)],
          evals  |-> st.evals + g.evals]

\* One iteration of the loop of load_data_to_cuda: g is what
\* get_single_item returned; the datum's tensors move to the device and
\* the datum is appended.
CacheDatum(st, g) ==
    IF g.raised # "None"
    THEN [raised |-> g.raised, self |-> g.self, evals |-> st.evals + g.evals]
    ELSE [raised |-> "None",
          self   |-> [g.self EXCEPT !.cached_data =
                        Some(Append(g.self.cached_data[1],
                                    [g.datum EXCEPT !.common.device = "cuda"]))],
          evals  |-> st.evals + g.evals]

\* The loop of load_data_to_cuda after k iterations; rnd[j] is the draw of
\* iteration j (from 0).  (Each value is bound by a one-element set, so
\* that it is computed once.)
RECURSIVE LoadLoop(_, _, _, _)
LoadLoop(obj, files, k, rnd) ==
    IF k = 0
    THEN [raised |-> "None", self |-> [obj EXCEPT !.cached_data = Some(<<>>)],
          evals |-> 0]
    ELSE CHOOSE out \in
            {IF st.raised # "None" THEN st
             ELSE CHOOSE o \in {CacheDatum(st, g) :
                        g \in {get_single_item(st.self, files, k - 1, rnd[k - 1])}} : TRUE
                : st \in {LoadLoop(obj, files, k - 1, rnd)}} : TRUE

\* range(self.__len__()) raises TypeError when __len__ returns None
load_data_to_cuda(obj, files, rnd) ==
    IF __len__(obj) = None
    THEN [raised |-> "TypeError", self |-> [obj EXCEPT !.cached_data = Some(<<>>)],
          evals |-> 0]
    ELSE LoadLoop(obj, files, __len__(obj)[1], rnd)

\* __getitem__(idx), idx >= 0
__getitem__(obj, idx) ==
    IF obj.cached_data = None
    THEN [raised |-> "TypeError"]   \* get_single_item takes no is_src
    ELSE IF idx >= Len(obj.cached_data[1]) THEN [raised |-> "IndexError"]
    ELSE [raised |-> "None", datum |-> obj.cached_data[1][idx + 1]]

----------------------------------------------------------------------------
(* NeumanDataset: construction *)

\* the object before any field is assigned
BlankObject(split) ==
    [split |-> split, captures |-> <<>>, num_frames |-> 0,
     train_split |-> <<>>, val_split |-> <<>>, manual |-> None,
     cached_data |-> None, canonical_joints |-> None,
     canonical_bbox |-> None, motion_weights_priors |-> None]

\* __init__ up to self.cached_data = None (lines 197-305)
init_fields(seq, split, files) ==
    LET captures == SceneCaptures(files.scene_length)
        blank    == BlankObject(split)
    IN  IF split = "anim"
        THEN
          LET m == mocap_path(seq)
              a == alignment(seq)
              c == rendering_caps(seq, files.n_poses, captures)
          IN  IF m.raised # "None" THEN [raised |-> m.raised, self |-> blank]
              ELSE IF a.raised # "None" THEN [raised |-> a.raised, self |-> blank]
              ELSE IF c.raised # "None" THEN [raised |-> c.raised, self |-> blank]
              \* get_center_and_diag: np.vstack of no camera centres
              ELSE IF Len(c.dummy_caps) = 0 THEN [raised |-> "ValueError", self |-> blank]
              ELSE [raised |-> "None",
                    self |-> [blank EXCEPT !.manual = Some(a),
                                           !.captures = c.dummy_caps,
                                           !.num_frames = Len(c.dummy_caps)]]
        ELSE
          LET sp == get_data_splits(Len(captures))
          IN  IF sp.raised # "None" THEN [raised |-> sp.raised, self |-> blank]
              \* self.train_split, _, self.val_split = get_data_splits(scene)
              ELSE [raised |-> "None",
                    self |-> [blank EXCEPT !.train_split = sp.train,
                                           !.val_split = sp.test,
                                           !.captures = captures,
                                           !.num_frames = Len(captures)]]

\* NeumanDataset(seq, split): the fields, then load_data_to_cuda
NeumanDataset(seq, split, files, rnd) ==
    LET f == init_fields(seq, split, files)
    IN  IF f.raised # "None" THEN [raised |-> f.raised, self |-> f.self, evals |-> 0]
        ELSE load_data_to_cuda(f.self, files, rnd)

\* the draws np.random.choice can return while a frame's patch is sampled
FrameDraws(files) ==
    LET nvalid == Len(Where2D(files.msk, files.H, files.W))
    IN  0..(Max2(nvalid, 1) - 1)

\* the draws of the whole loop of load_data_to_cuda
LoadDraws(seq, split, files) ==
    LET f == init_fields(seq, split, files)
        n == IF f.raised = "None" /\ __len__(f.self) # None
             THEN __len__(f.self)[1] ELSE 0
    IN  IF split \in {"train", "val"}
        THEN [0..(n - 1) -> FrameDraws(files)]
        ELSE {[j \in 0..(n - 1) |-> 0]}

----------------------------------------------------------------------------
(* Spec: a dataset is built on a scene, then read *)

Splits == {"train", "val", "anim", "test"}

SessionSeqs == {<<"seattle">>, <<"neuman", "bike">>, <<"zju_mocap">>}

\* images with two or more rows and columns
SessionShapes == {s \in ImageShapes : s[1] >= 2 /\ s[2] >= 2}

\* the scenes an animation is built on: empty, too short for the reference
\* capture of seattle (20) and bike (25), long enough for one, for both
AnimSceneLens == {0, 20, 21, 26}

\* the scene lengths get_data_splits accepts
SplittableLens == {n \in 0..MaxCaptures : get_data_splits(n).raised = "None"}

\* a scene whose frames show no subject and whose rays all miss
BlankDisk(n, n_poses) ==
    [scene_length |-> n, n_poses |-> n_poses, H |-> 2, W |-> 3,
     msk |-> RectMask(2, 3, 1, 0, 1, 0), ray_mask |-> [k \in 0..5 |-> FALSE]]

\* What the constructor finds on disk.  An animation reads no mask.  A
\* scene too short to split, or a split that is none of the three, raises
\* before a mask is read.  A train session loads eight or more frames, each
\* with its own draw, so its silhouette is a single pixel or empty (one
\* draw); a val session loads fewer and takes every silhouette and every
\* ray mask.
Disks(split) ==
    IF split = "anim"
    THEN {BlankDisk(n, f) : <<n, f>> \in AnimSceneLens \X (0..MaxFrames)}
    ELSE IF split = "test"
    THEN {BlankDisk(n, n) : n \in 0..MaxCaptures}
    ELSE {BlankDisk(n, n) : n \in (0..MaxCaptures) \ SplittableLens} \cup
         UNION {{[scene_length |-> n, n_poses |-> n, H |-> s[1], W |-> s[2],
                  msk |-> m, ray_mask |-> r] :
                    <<n, m, r>> \in
                       SplittableLens
                       \X SilhouetteMasks(s[1], s[2],
                              IF split = "val" THEN MaxSubjectPixels ELSE 1)
                       \X (IF split = "val" THEN FlatMasks(s[1] * s[2])
                           ELSE {FlatMask(s[1], s[2], m2) :
                                   m2 \in SilhouetteMasks(s[1], s[2], s[1] * s[2])})}
                : s \in SessionShapes}

Init ==
    /\ \E split \in Splits :
          /\ args \in [fn : {"NeumanDataset"}, split : {split},
                       seq : IF split = "anim" THEN SessionSeqs
                             ELSE {<<"seattle">>}]
          /\ disk \in Disks(split)
    /\ ret = NoRet
    /\ pc = "new"
    /\ self = NoObject
    /\ cnl_evals = 0

\* NeumanDataset(seq, split)
Construct ==
    /\ pc = "new"
    /\ \E rnd \in LoadDraws(args.seq, args.split, disk) :
          \E r \in {NeumanDataset(args.seq, args.split, disk, rnd)} :
              /\ pc' = IF r.raised = "None" THEN "ready" ELSE "raised"
              /\ self' = r.self
              /\ cnl_evals' = r.evals
              /\ ret' = [raised |-> r.raised, fn |-> "NeumanDataset"]
    /\ UNCHANGED <<args, disk>>

\* dataset[idx]
GetItem ==
    /\ pc = "ready"
    /\ \E idx \in 0..Len(self.cached_data[1]) :
          \E r \in {__getitem__(self, idx)} :
              ret' = IF r.raised = "None"
                     THEN [raised |-> "None", fn |-> "__getitem__", i |-> idx,
                           datum |-> r.datum]
                     ELSE [raised |-> r.raised, fn |-> "__getitem__", i |-> idx]
    /\ UNCHANGED <<args, pc, disk, self, cnl_evals>>

\* dataset.get_single_item(i), computed on demand
GetSingleItem ==
    /\ pc = "ready"
    /\ cnl_evals < Len(self.cached_data[1]) + MaxOnDemand
    /\ \E i \in 0..(Len(self.cached_data[1]) - 1), rnd \in FrameDraws(disk) :
          \E r \in {get_single_item(self, disk, i, rnd)} :
              /\ r.raised = "None"
              /\ ret' = [raised |-> "None", fn |-> "get_single_item", i |-> i,
                         datum |-> r.datum]
              /\ self' = r.self
              /\ cnl_evals' = cnl_evals + r.evals
    /\ UNCHANGED <<args, pc, disk>>

Next == Construct \/ GetItem \/ GetSingleItem

Spec == Init /\ [][Next]_vars

\* a train or val record was returned, by the cache or by get_single_item
RecordReturned ==
    /\ args.split \in {"train", "val"}
    /\ pc = "ready"
    /\ ret.fn \in {"__getitem__", "get_single_item"}
    /\ ret.raised = "None"

\* the five per-ray arrays of a record
RecordRayArrays(d) == <<d.rays[1], d.rays[2], d.nerf_near, d.nerf_far, d.target_rgbs>>

\* C4 (as stated): in every train/val record the ray mask has length H*W and
\* rays_o, rays_d, nerf_near, nerf_far and target_rgbs each have length
\* count_true(ray_mask) of the ray_mask of that record.
C4_RecordArraysHaveMaskTrueCount ==
    RecordReturned =>
        /\ DOMAIN ret.datum.ray_mask = 0..(disk.H * disk.W - 1)
        /\ \A a \in 1..5 :
              Len(RecordRayArrays(ret.datum)[a])
                 = CountTrue(ret.datum.ray_mask, disk.H * disk.W)

\* C4 (amended): in every train/val record the ray mask has length H*W;
\* rays_o, rays_d, nerf_near, nerf_far and target_rgbs all have the length
\* patch_div_indices[-1], the number of rays of the sampled patch, which is
\* at most count_true(ray_mask); and every ray kept is a ray of a pixel
\* that the ray mask marks and that lies in the patch window.
C4_RecordArraysHavePatchRayCount ==
    RecordReturned =>
        LET d == ret.datum
        IN  /\ DOMAIN d.ray_mask = 0..(disk.H * disk.W - 1)
            /\ d.patch_div_indices[Len(d.patch_div_indices)]
                  <= CountTrue(d.ray_mask, disk.H * disk.W)
            /\ \A a \in 1..5 :
                  /\ Len(RecordRayArrays(d)[a])
                        = d.patch_div_indices[Len(d.patch_div_indices)]
                  /\ \A k \in 1..Len(RecordRayArrays(d)[a]) :
                        LET px == RecordRayArrays(d)[a][k]
                        IN  /\ px \in 0..(disk.H * disk.W - 1)
                            /\ d.ray_mask[px]
                            /\ (px % disk.W) >= d.xy_min[1][1]
                            /\ (px % disk.W) <  d.xy_max[1][1]
                            /\ (px \div disk.W) >= d.xy_min[1][2]
                            /\ (px \div disk.W) <  d.xy_max[1][2]

\* a record whose patch keeps some, but not all, of the rays that hit
C4_Witness ==
    /\ RecordReturned
    /\ ret.fn = "get_single_item"
    /\ Len(ret.datum.target_rgbs) >= 1
    /\ Len(ret.datum.target_rgbs) < CountTrue(ret.datum.ray_mask, disk.H * disk.W)

\* C6 (as stated): within one session the canonical bounding box and the
\* motion-weight priors are computed at most once.
C6_CanonicalComputedAtMostOnce ==
    args.split \in {"train", "val"} => cnl_evals <= 1

\* C7 (as stated): the record get_single_item(i) computes on demand equals
\* the record the cache serves for i, apart from device placement.
C7_OnDemandEqualsCached ==
    (RecordReturned /\ ret.fn = "get_single_item") =>
        [ret.datum EXCEPT !.common.device = "cuda"]
            = __getitem__(self, ret.i).datum

\* the list of get_data_splits that the requested split names
RequestedSplitList ==
    IF args.split = "train" THEN get_data_splits(disk.scene_length).train
    ELSE get_data_splits(disk.scene_length).val

\* C10 (as stated): a train dataset has the length of the train list of
\* get_data_splits and item i is built from capture train[i]; a val dataset
\* has the length of the val list and item i is built from capture val[i];
\* an anim dataset has as many items as frames and item i is frame i.
C10_LengthAndItemsFollowSplit ==
    /\ (pc = "ready" /\ args.split \in {"train", "val"}) =>
          __len__(self) = Some(Len(RequestedSplitList))
    /\ (pc = "ready" /\ args.split = "anim") =>
          __len__(self) = Some(Len(self.captures))
    /\ (RecordReturned /\ ret.i < Len(RequestedSplitList)) =>
          ret.datum.common.pose_index = RequestedSplitList[ret.i + 1]
    /\ (args.split = "anim" /\ pc = "ready" /\ ret.fn \in {"__getitem__", "get_single_item"}
        /\ ret.raised = "None") =>
          ret.datum.common.pose_index = ret.i

\* cached_data is a list of len(dataset) records, record i being one that
\* get_single_item(i) assembles (for some draw of the patch centre), moved
\* to the device
CacheHoldsEveryRecord ==
    pc = "ready" =>
        /\ self.cached_data # None
        /\ __len__(self) = Some(Len(self.cached_data[1]))
        /\ \A i \in 0..(Len(self.cached_data[1]) - 1) :
              /\ self.cached_data[1][i + 1].common.pose_index = SplitList(self, i)[i + 1]
              /\ \E rnd \in FrameDraws(disk) :
                    \E g \in {get_single_item(self, disk, i, rnd)} :
                       /\ g.raised = "None"
                       /\ self.cached_data[1][i + 1] =
                             [g.datum EXCEPT !.common.device = "cuda"]

\* __getitem__(i) of a valid index returns cached_data[i]; it never takes
\* the branch that calls get_single_item(idx, is_src=True)
GetItemServedFromCache ==
    (pc = "ready" /\ ret.fn = "__getitem__") =>
        /\ ret.raised # "TypeError"
        /\ ret.i < Len(self.cached_data[1]) =>
              /\ ret.raised = "None"
              /\ ret.datum = self.cached_data[1][ret.i + 1]

\* C13: once construction has completed cached_data is not None and holds
\* len(dataset) records, record i the one assembled for index i;
\* __getitem__ serves from it, never taking the on-demand branch; and no
\* later call changes it, so repeated __getitem__(i) return the same record.
C13_CacheCompleteAndServed ==
    /\ [](CacheHoldsEveryRecord /\ GetItemServedFromCache)
    /\ [][pc = "ready" => self'.cached_data = self.cached_data]_vars

\* a dataset of two or more records whose second record was served after
\* an on-demand get_single_item ran
C13_Witness ==
    /\ pc = "ready"
    /\ Len(self.cached_data[1]) >= 2
    /\ ret.fn = "__getitem__"
    /\ ret.i = 1
    /\ ret.raised = "None"
    /\ cnl_evals > Len(self.cached_data[1])

\* C14 (as stated): the bbox [xmin, ymin, xmax, ymax] of a train/val
\* record is the tight bounding box of the mask with x = column and
\* y = row: every foreground pixel (r, c) has xmin <= c <= xmax and
\* ymin <= r <= ymax, and each bound is attained by a foreground pixel.
C14_BBoxIsColumnRowBoxOfMask ==
    RecordReturned =>
        LET fg == {q \in DOMAIN ret.datum.mask : ret.datum.mask[q]}
            b  == ret.datum.bbox
        IN  /\ \A q \in fg : b[1] <= q[2] /\ q[2] <= b[3]
                          /\ b[2] <= q[1] /\ q[1] <= b[4]
            /\ \E q \in fg : q[2] = b[1]
            /\ \E q \in fg : q[2] = b[3]
            /\ \E q \in fg : q[1] = b[2]
            /\ \E q \in fg : q[1] = b[4]

\* C15: in every train/val record rays_o, rays_d, nerf_near, nerf_far and
\* target_rgbs have one length, which is patch_div_indices[-1] and the
\* number of true entries of patch_masks; the record holds one patch:
\* patch_div_indices has 2 entries, and patch_masks, target_patches and
\* target_patch_masks have leading dimension 1.
C15_PatchArraysConsistent ==
    RecordReturned =>
        LET d == ret.datum
        IN  /\ \A a \in 1..5 : Len(RecordRayArrays(d)[a]) = d.patch_div_indices[2]
            /\ Len(d.patch_div_indices) = 2
            /\ d.patch_div_indices[1] = 0
            /\ Len(d.patch_masks) = 1
            /\ Len(d.target_patches) = 1
            /\ Len(d.target_patch_masks) = 1
            /\ d.patch_div_indices[2] = TrueCount2D(d.patch_masks[1])

\* a record whose patch has rays, and pixels whose ray misses
C15_Witness ==
    /\ RecordReturned
    /\ Len(ret.datum.target_rgbs) >= 1
    /\ \E r \in 1..Len(ret.datum.patch_masks[1]) :
          \E c \in 1..Len(ret.datum.patch_masks[1][r]) :
             ~ret.datum.patch_masks[1][r][c]
    /\ Len(ret.datum.target_rgbs) = TrueCount2D(ret.datum.patch_masks[1])

=============================================================================
